---- MODULE Spec2Model ----
(***************************************************************************)
(* A model of src/ainedit/ainedit.c: the "ain edit" command.  One run of   *)
(* command_ain_edit is a state machine: the option loop consumes the       *)
(* command line one option at a time, then the run selects project mode,   *)
(* transcode mode or edit mode, and writes the image.                      *)
(*                                                                         *)
(* C strings are sequences of one-character strings; the null pointer is   *)
(* the sequence NULL, which is no string over the alphabets used here.     *)
(***************************************************************************)
EXTENDS Integers, Sequences, FiniteSets, TLC

VARIABLES
    pc,              \* position in command_ain_edit
    argv,            \* the options read from the command line so far, in order
    optind,          \* number of options consumed
    optarg,          \* getopt's optarg
    nr_inputs,       \* static int nr_inputs
    inputs,          \* static struct input inputs[256], the slots written so far
    project_file,
    output_file,
    major_version,
    minor_version,
    transcode,
    flags,
    sys_silent,
    input_encoding,
    output_encoding,
    argc,            \* positional arguments left after the options
    ain,             \* the image (struct ain *)
    i,               \* the dispatch loop's index
    calls,           \* the calls made to the collaborators, in order
    output,          \* what the container writer was given: path and image
    messages,        \* warnings, notices and error messages, in order
    status           \* the exit status, once pc = "exited"

vars == <<pc, argv, optind, optarg, nr_inputs, inputs, project_file, output_file,
          major_version, minor_version, transcode, flags, sys_silent,
          input_encoding, output_encoding, argc, ain, i, calls, output,
          messages, status>>

----------------------------------------------------------------------------
\* Bounds of the model.

\* Options on one command line (specification Spec).
MaxOpts == 3
\* Positional arguments on one command line.
MaxArgc == 2
\* Characters in a version string (specification SpecVer).
MaxStrLen == 5

\* Program constants.
InputsCapacity == 256
DefaultMajor == 4
DefaultMinor == 0
MinMajor == 4
MaxMajor == 14

----------------------------------------------------------------------------
\* Strings.

NULL == <<"NULL">>

Digits == {"0", "1", "4"}
Chars == Digits \cup {".", "x", "-", " "}

Strings(n) == UNION {[1..k -> Chars] : k \in 0..n}

UTF8 == <<"U", "T", "F", "-", "8">>
CP932 == <<"C", "P", "9", "3", "2">>
OutAin == <<"o", "u", "t", ".", "a", "i", "n">>

\* The file names and encodings the command lines of the model use.
Paths == {<<"a">>, <<"b">>}
ProjectPaths == {<<"p">>}
OutputPaths == {<<"o">>, <<"q">>}
Encodings == {UTF8}
ContainerPath == <<"i">>
\* --ain-version arguments of specification Spec: supported, supported with a
\* minor, unsupported, malformed, too long.
VersionArgs == { <<"4">>, <<"1", "4", ".", "1">>, <<"1">>,
                 <<"4", ".", ".">>, <<"1", "1", "1">> }
\* The versions stored in the containers ain_open may read.
FileVersions == { <<4, 0>>, <<14, 1>> }

\* strchr(str, '.'): the position of the first dot (1-based), 0 if none.
RECURSIVE strchr_from(_, _)
strchr_from(str, k) ==
    IF k > Len(str) THEN 0
    ELSE IF str[k] = "." THEN k
    ELSE strchr_from(str, k + 1)

strchr_dot(str) == strchr_from(str, 1)

DigitVal(ch) == CASE ch = "0" -> 0 [] ch = "1" -> 1 [] ch = "2" -> 2
                  [] ch = "3" -> 3 [] ch = "4" -> 4 [] ch = "5" -> 5
                  [] ch = "6" -> 6 [] ch = "7" -> 7 [] ch = "8" -> 8
                  [] ch = "9" -> 9

IsDigit(ch) == ch \in {"0", "1", "2", "3", "4", "5", "6", "7", "8", "9"}

\* atoi's digit loop: accumulate decimal digits from position k until the
\* first character that is no digit.
RECURSIVE atoi_digits(_, _, _)
atoi_digits(str, k, acc) ==
    IF k > Len(str) \/ ~IsDigit(str[k]) THEN acc
    ELSE atoi_digits(str, k + 1, acc * 10 + DigitVal(str[k]))

\* atoi's leading white space.
RECURSIVE atoi_skip(_, _)
atoi_skip(str, k) ==
    IF k <= Len(str) /\ str[k] = " " THEN atoi_skip(str, k + 1) ELSE k

\* atoi(str): white space, an optional sign, then digits; 0 if there are none.
atoi(str) ==
    LET k == atoi_skip(str, 1) IN
    IF k <= Len(str) /\ str[k] = "-" THEN 0 - atoi_digits(str, k + 1, 0)
    ELSE IF k <= Len(str) /\ str[k] = "+" THEN atoi_digits(str, k + 1, 0)
    ELSE atoi_digits(str, k, 0)

\* A parse_version whose length check on the major component is off by one.
parse_versionShortMajor(str, old_major, old_minor) ==
    LET dot == strchr_dot(str) IN
    IF dot # 0
    THEN IF dot - 1 >= 2
         THEN [ok |-> FALSE, major |-> old_major, minor |-> old_minor]
         ELSE IF Len(str) - dot > 2
         THEN [ok |-> FALSE, major |-> old_major, minor |-> old_minor]
         ELSE [ok |-> TRUE,
               major |-> atoi(SubSeq(str, 1, dot - 1)),
               minor |-> atoi(SubSeq(str, dot + 1, Len(str)))]
    ELSE IF Len(str) > 2
         THEN [ok |-> FALSE, major |-> old_major, minor |-> old_minor]
         ELSE [ok |-> TRUE, major |-> atoi(str), minor |-> atoi(<<"0">>)]

\* parse_version(str, &major, &minor): ok is the return value; major and
\* minor are what is stored through the pointers (old_major and old_minor
\* are left in place when it returns false).
parse_version(str, old_major, old_minor) ==
    LET dot == strchr_dot(str) IN
    IF dot # 0
    THEN IF dot - 1 > 2
         THEN [ok |-> FALSE, major |-> old_major, minor |-> old_minor]
         ELSE IF Len(str) - dot > 2
         THEN [ok |-> FALSE, major |-> old_major, minor |-> old_minor]
         ELSE [ok |-> TRUE,
               major |-> atoi(SubSeq(str, 1, dot - 1)),
               minor |-> atoi(SubSeq(str, dot + 1, Len(str)))]
    ELSE IF Len(str) > 2
         THEN [ok |-> FALSE, major |-> old_major, minor |-> old_minor]
         ELSE [ok |-> TRUE, major |-> atoi(str), minor |-> atoi(<<"0">>)]

----------------------------------------------------------------------------
\* The image and the call log.

NoImage == [state |-> "none", major |-> 0, minor |-> 0, origin |-> "none",
            member_functions |-> FALSE, transcoded |-> FALSE, edits |-> <<>>]

\* One call to a collaborator: the function, its path argument, the version
\* and flags it was given (for ain_open: the version it read from the
\* container), and whether it returned.
Call(fn, path, major, minor, fl, ok) ==
    [fn |-> fn, path |-> path, major |-> major, minor |-> minor,
     flags |-> fl, ok |-> ok]

\* One applied edit, as recorded in the image.
Edit(fn, path, fl) == [fn |-> fn, path |-> path, flags |-> fl]

Init ==
    /\ pc = "getopt"
    /\ argv = <<>>
    /\ optind = 0
    /\ optarg = NULL
    /\ nr_inputs = 0
    /\ inputs = <<>>
    /\ project_file = NULL
    /\ output_file = NULL
    /\ major_version = DefaultMajor
    /\ minor_version = DefaultMinor
    /\ transcode = FALSE
    /\ flags = {}
    /\ sys_silent = FALSE
    /\ input_encoding = UTF8
    /\ output_encoding = CP932
    /\ argc = 0
    /\ ain = NoImage
    /\ i = 0
    /\ calls = <<>>
    /\ output = <<>>
    /\ messages = <<>>
    /\ status = 0

----------------------------------------------------------------------------
\* Diagnostics (alice.h).

\* ALICE_ERROR / USAGE_ERROR: print the message and exit with a failure status.
ALICE_ERROR(msg) ==
    /\ pc' = "exited"
    /\ status' = 1
    /\ messages' = Append(messages, msg)

\* WARNING: print the message and go on.
WARNING(cond, msg) == IF cond THEN Append(messages, msg) ELSE messages

\* NOTICE: print the message unless sys_silent.
NOTICE(log, msg) == IF sys_silent THEN log ELSE Append(log, msg)

ErrTooManyInputs == "Too many inputs"
ErrParse == "Invalid AIN version (parse error)"
ErrRange == "Invalid AIN version (4-14 supported)"
ErrUsage == "Too many arguments."
ErrOpen == "Failed to open ain file"
WarnProject == "Input files specified on the command line are ignored in --project mode"
WarnTranscode == "Input files specified on the command line are ignored in --transcode mode"
NoticeWrite == "Writing AIN file..."

----------------------------------------------------------------------------
\* The option loop (lines 111-160).

RunVars == <<argc, ain, i, calls, output>>

\* alice_getopt returned option c with argument arg.
alice_getopt(c, arg) ==
    /\ pc = "getopt"
    /\ argv' = Append(argv, [opt |-> c, arg |-> arg])
    /\ optind' = optind + 1
    /\ optarg' = arg
    /\ UNCHANGED RunVars

\* A capacity check that is off by one: it lets one write past the last slot.
push_inputOffByOne(type, filename) ==
    IF nr_inputs > InputsCapacity
    THEN /\ ALICE_ERROR(ErrTooManyInputs)
         /\ UNCHANGED <<nr_inputs, inputs>>
    ELSE /\ inputs' = [k \in 1..(nr_inputs + 1) |->
                          IF k = nr_inputs + 1
                          THEN [type |-> type, filename |-> filename]
                          ELSE inputs[k]]
         /\ nr_inputs' = nr_inputs + 1
         /\ UNCHANGED <<pc, status, messages>>

\* push_input(type, filename): the capacity check, then inputs[nr_inputs++].
push_input(type, filename) ==
    IF nr_inputs >= InputsCapacity
    THEN /\ ALICE_ERROR(ErrTooManyInputs)
         /\ UNCHANGED <<nr_inputs, inputs>>
    ELSE /\ inputs' = [k \in 1..(nr_inputs + 1) |->
                          IF k = nr_inputs + 1
                          THEN [type |-> type, filename |-> filename]
                          ELSE inputs[k]]
         /\ nr_inputs' = nr_inputs + 1
         /\ UNCHANGED <<pc, status, messages>>

ConfigVars == <<project_file, output_file, major_version, minor_version,
                transcode, flags, sys_silent, input_encoding, output_encoding>>

\* case 'p', LOPT_PROJECT
CaseProject(f) ==
    /\ alice_getopt("project", f)
    /\ project_file' = f
    /\ UNCHANGED <<pc, status, messages, nr_inputs, inputs, output_file,
                   major_version, minor_version, transcode, flags, sys_silent,
                   input_encoding, output_encoding>>

\* case 'c', LOPT_CODE
CaseCode(f) ==
    /\ alice_getopt("code", f)
    /\ push_input("IN_CODE", f)
    /\ UNCHANGED ConfigVars

\* case LOPT_JAF
CaseJaf(f) ==
    /\ alice_getopt("jaf", f)
    /\ push_input("IN_JAF", f)
    /\ UNCHANGED ConfigVars

\* case 'j', LOPT_JSON
CaseJson(f) ==
    /\ alice_getopt("json", f)
    /\ push_input("IN_DECL", f)
    /\ UNCHANGED ConfigVars

\* case 't', LOPT_TEXT
CaseText(f) ==
    /\ alice_getopt("text", f)
    /\ push_input("IN_TEXT", f)
    /\ UNCHANGED ConfigVars

\* case LOPT_TRANSCODE
CaseTranscode(enc) ==
    /\ alice_getopt("transcode", enc)
    /\ transcode' = TRUE
    /\ input_encoding' = CP932
    /\ output_encoding' = enc
    /\ UNCHANGED <<pc, status, messages, nr_inputs, inputs, project_file,
                   output_file, major_version, minor_version, flags, sys_silent>>

\* case 'o', LOPT_OUTPUT
CaseOutput(f) ==
    /\ alice_getopt("output", f)
    /\ output_file' = f
    /\ UNCHANGED <<pc, status, messages, nr_inputs, inputs, project_file,
                   major_version, minor_version, transcode, flags, sys_silent,
                   input_encoding, output_encoding>>

\* case LOPT_RAW
CaseRaw ==
    /\ alice_getopt("raw", NULL)
    /\ flags' = flags \cup {"ASM_RAW"}
    /\ UNCHANGED <<pc, status, messages, nr_inputs, inputs, project_file,
                   output_file, major_version, minor_version, transcode,
                   sys_silent, input_encoding, output_encoding>>

\* A range check without its lower bound.
VersionSupportedNoLowerBound(major) == ~(major > MaxMajor)

\* The range check of line 152.
VersionSupported(major) == ~(major < MinMajor \/ major > MaxMajor)

\* case LOPT_AIN_VERSION
CaseAinVersion(str) ==
    LET r == parse_version(str, major_version, minor_version) IN
    /\ alice_getopt("ain-version", str)
    /\ major_version' = r.major
    /\ minor_version' = r.minor
    /\ IF ~r.ok THEN ALICE_ERROR(ErrParse)
       ELSE IF ~VersionSupported(r.major) THEN ALICE_ERROR(ErrRange)
       ELSE UNCHANGED <<pc, status, messages>>
    /\ UNCHANGED <<nr_inputs, inputs, project_file, output_file, transcode,
                   flags, sys_silent, input_encoding, output_encoding>>

\* case LOPT_SILENT
CaseSilent ==
    /\ alice_getopt("silent", NULL)
    /\ sys_silent' = TRUE
    /\ UNCHANGED <<pc, status, messages, nr_inputs, inputs, project_file,
                   output_file, major_version, minor_version, transcode, flags,
                   input_encoding, output_encoding>>

\* A count of the positional arguments that is checked only after the first
\* of them was opened.
EndOfOptionsLateCheck(n) ==
    /\ pc = "getopt"
    /\ argc' = n
    /\ IF n > 1
       THEN /\ ALICE_ERROR(ErrUsage)
            /\ calls' = Append(calls, Call("ain_open", ContainerPath, 0, 0, {}, TRUE))
       ELSE /\ pc' = "parsed"
            /\ UNCHANGED <<status, messages, calls>>
    /\ UNCHANGED <<argv, optind, optarg, nr_inputs, inputs, ain, i, output>>
    /\ UNCHANGED <<project_file, output_file, major_version, minor_version,
                   transcode, flags, sys_silent, input_encoding, output_encoding>>

\* alice_getopt returned -1 with n positional arguments left (lines 113,
\* 161-166).
EndOfOptions(n) ==
    /\ pc = "getopt"
    /\ argc' = n
    /\ IF n > 1
       THEN ALICE_ERROR(ErrUsage)
       ELSE /\ pc' = "parsed"
            /\ UNCHANGED <<status, messages>>
    /\ UNCHANGED <<argv, optind, optarg, nr_inputs, inputs, ain, i, calls, output>>
    /\ UNCHANGED ConfigVars

----------------------------------------------------------------------------
\* After the option loop (lines 168-221).

OptionVars == <<argv, optind, optarg, nr_inputs, inputs, project_file,
                major_version, minor_version, transcode, flags, sys_silent,
                input_encoding, output_encoding, argc>>

\* A project mode that warns only from the second input on.
ProjectModeLateWarning ==
    /\ pc = "parsed"
    /\ project_file # NULL
    /\ messages' = WARNING(nr_inputs > 1, WarnProject)
    /\ calls' = Append(calls, Call("pje_build", project_file, major_version,
                                   minor_version, {}, TRUE))
    /\ pc' = "exited"
    /\ status' = 0
    /\ UNCHANGED <<output_file, ain, i, output>>
    /\ UNCHANGED OptionVars

\* if (project_file) { ... pje_build(...); return 0; }
ProjectMode ==
    /\ pc = "parsed"
    /\ project_file # NULL
    /\ messages' = WARNING(nr_inputs > 0, WarnProject)
    /\ calls' = Append(calls, Call("pje_build", project_file, major_version,
                                   minor_version, {}, TRUE))
    /\ pc' = "exited"
    /\ status' = 0
    /\ UNCHANGED <<output_file, ain, i, output>>
    /\ UNCHANGED OptionVars

\* An output path that is always the default one.
DefaultOutputAlways == OutAin

\* if (!output_file) output_file = "out.ain";
DefaultOutput == IF output_file = NULL THEN OutAin ELSE output_file

\* ain_new(major_version, minor_version): a fresh, empty image.
ain_new(major, minor) ==
    [state |-> "live", major |-> major, minor |-> minor, origin |-> "new",
     member_functions |-> FALSE, transcoded |-> FALSE, edits |-> <<>>]

\* What ain_open returns for a container that stores version v.
ain_open(v) ==
    [state |-> "live", major |-> v[1], minor |-> v[2], origin |-> "file",
     member_functions |-> FALSE, transcoded |-> FALSE, edits |-> <<>>]

\* A creation that refuses to run in transcode mode: transcoding needs an
\* existing container.
NewContainerRejectsTranscode ==
    /\ pc = "parsed"
    /\ project_file = NULL
    /\ argc = 0
    /\ output_file' = DefaultOutput
    /\ IF transcode
       THEN /\ ALICE_ERROR(ErrOpen)
            /\ UNCHANGED <<ain, calls>>
       ELSE /\ ain' = ain_new(major_version, minor_version)
            /\ calls' = Append(calls, Call("ain_new", NULL, major_version,
                                           minor_version, {}, TRUE))
            /\ pc' = "opened"
            /\ UNCHANGED <<messages, status>>
    /\ UNCHANGED <<i, output>>
    /\ UNCHANGED OptionVars

\* A creation that skips the fix-up: only opened containers are fixed up.
NewContainerNoFixup ==
    /\ pc = "parsed"
    /\ project_file = NULL
    /\ argc = 0
    /\ output_file' = DefaultOutput
    /\ ain' = ain_new(major_version, minor_version)
    /\ calls' = Append(calls, Call("ain_new", NULL, major_version,
                                   minor_version, {}, TRUE))
    /\ pc' = "ready"
    /\ UNCHANGED <<i, output, messages, status>>
    /\ UNCHANGED OptionVars

\* Lines 177-182: no positional argument, the image is created.
NewContainer ==
    /\ pc = "parsed"
    /\ project_file = NULL
    /\ argc = 0
    /\ output_file' = DefaultOutput
    /\ ain' = ain_new(major_version, minor_version)
    /\ calls' = Append(calls, Call("ain_new", NULL, major_version,
                                   minor_version, {}, TRUE))
    /\ pc' = "opened"
    /\ UNCHANGED <<i, output, messages, status>>
    /\ UNCHANGED OptionVars

\* An open that stamps the requested version on the image it read.
OpenContainerRequestedVersion ==
    /\ pc = "parsed"
    /\ project_file = NULL
    /\ argc # 0
    /\ output_file' = DefaultOutput
    /\ \E ok \in BOOLEAN, v \in FileVersions :
          /\ calls' = Append(calls, Call("ain_open", ContainerPath,
                                         IF ok THEN v[1] ELSE 0,
                                         IF ok THEN v[2] ELSE 0, {}, ok))
          /\ IF ok
             THEN /\ ain' = [ain_open(v) EXCEPT !.major = major_version,
                                                !.minor = minor_version]
                  /\ pc' = "opened"
                  /\ UNCHANGED <<messages, status>>
             ELSE /\ ALICE_ERROR(ErrOpen)
                  /\ UNCHANGED ain
    /\ UNCHANGED <<i, output>>
    /\ UNCHANGED OptionVars

\* An open whose result is not checked: the run goes on without an image.
OpenContainerUnchecked ==
    /\ pc = "parsed"
    /\ project_file = NULL
    /\ argc # 0
    /\ output_file' = DefaultOutput
    /\ \E ok \in BOOLEAN, v \in FileVersions :
          /\ calls' = Append(calls, Call("ain_open", ContainerPath,
                                         IF ok THEN v[1] ELSE 0,
                                         IF ok THEN v[2] ELSE 0, {}, ok))
          /\ ain' = IF ok THEN ain_open(v) ELSE ain
          /\ pc' = "opened"
          /\ UNCHANGED <<messages, status>>
    /\ UNCHANGED <<i, output>>
    /\ UNCHANGED OptionVars

\* Lines 177-187: the positional argument is opened; the reader fails, or
\* returns the image of a container that stores one of FileVersions.
OpenContainer ==
    /\ pc = "parsed"
    /\ project_file = NULL
    /\ argc # 0
    /\ output_file' = DefaultOutput
    /\ \E ok \in BOOLEAN, v \in FileVersions :
          /\ calls' = Append(calls, Call("ain_open", ContainerPath,
                                         IF ok THEN v[1] ELSE 0,
                                         IF ok THEN v[2] ELSE 0, {}, ok))
          /\ IF ok
             THEN /\ ain' = ain_open(v)
                  /\ pc' = "opened"
                  /\ UNCHANGED <<messages, status>>
             ELSE /\ ALICE_ERROR(ErrOpen)
                  /\ UNCHANGED ain
    /\ UNCHANGED <<i, output>>
    /\ UNCHANGED OptionVars

\* ain_init_member_functions(ain, conv_output_utf8)
InitMemberFunctions ==
    /\ pc = "opened"
    /\ ain' = [ain EXCEPT !.member_functions = TRUE]
    /\ calls' = Append(calls, Call("ain_init_member_functions", NULL, 0, 0, {}, TRUE))
    /\ pc' = "ready"
    /\ UNCHANGED <<output_file, i, output, messages, status>>
    /\ UNCHANGED OptionVars

\* A transcode branch that does not test the flag.
TranscodeUnconditional ==
    /\ pc = "ready"
    /\ messages' = WARNING(nr_inputs > 0, WarnTranscode)
    /\ ain' = [ain EXCEPT !.transcoded = TRUE]
    /\ calls' = Append(calls, Call("ain_transcode", output_encoding, 0, 0, {}, TRUE))
    /\ pc' = "write"
    /\ UNCHANGED <<output_file, i, output, status>>
    /\ UNCHANGED OptionVars

\* A transcode branch that treats queued inputs as an error.
TranscodeFatalConflict ==
    /\ pc = "ready"
    /\ transcode
    /\ IF nr_inputs > 0
       THEN /\ ALICE_ERROR(WarnTranscode)
            /\ UNCHANGED <<ain, calls>>
       ELSE /\ messages' = messages
            /\ ain' = [ain EXCEPT !.transcoded = TRUE]
            /\ calls' = Append(calls, Call("ain_transcode", output_encoding,
                                           0, 0, {}, TRUE))
            /\ pc' = "write"
            /\ UNCHANGED status
    /\ UNCHANGED <<output_file, i, output>>
    /\ UNCHANGED OptionVars

\* if (transcode) { ... ain_transcode(ain); goto write_ain_file; }
Transcode ==
    /\ pc = "ready"
    /\ transcode
    /\ messages' = WARNING(nr_inputs > 0, WarnTranscode)
    /\ ain' = [ain EXCEPT !.transcoded = TRUE]
    /\ calls' = Append(calls, Call("ain_transcode", output_encoding, 0, 0, {}, TRUE))
    /\ pc' = "write"
    /\ UNCHANGED <<output_file, i, output, status>>
    /\ UNCHANGED OptionVars

\* A switch with the bodies of two cases exchanged.
CollaboratorSwapped(type) ==
    CASE type = "IN_CODE" -> "asm_assemble_jam"
      [] type = "IN_JAF" -> "jaf_build"
      [] type = "IN_TEXT" -> "read_declarations"
      [] type = "IN_DECL" -> "read_text"

\* The collaborator an input type is routed to (the switch of line 200).
Collaborator(type) ==
    CASE type = "IN_CODE" -> "asm_assemble_jam"
      [] type = "IN_JAF" -> "jaf_build"
      [] type = "IN_TEXT" -> "read_text"
      [] type = "IN_DECL" -> "read_declarations"

\* The run's flags handed to every collaborator.
CollaboratorFlagsAll(type) == flags

\* The flags a collaborator is given: only the assembler takes them.
CollaboratorFlags(type) == IF type = "IN_CODE" THEN flags ELSE {}

\* A collaborator returns, or reports its error and ends the run itself: the
\* caller reads no result from it.
CollaboratorOutcomes == BOOLEAN

CollaboratorFails(fn) == ALICE_ERROR(fn)

\* A loop that reads the head of the queue on every iteration.
LoopInputHead(k) == inputs[1]

\* A loop that walks the queue from its end.
LoopInputReversed(k) == inputs[nr_inputs - k]

\* The input the loop's i-th iteration reads: inputs[i].
LoopInput(k) == inputs[k + 1]

\* A loop that stops one input short.
LoopCondShort == i < nr_inputs - 1

\* The loop's condition: i < nr_inputs.
LoopCond == i < nr_inputs

\* A transcode branch without its goto: control falls into the loop.
EditModeFallThrough == TRUE

\* The loop is reached only past the transcode branch, which ends in a goto.
EditMode == ~transcode

\* The symbols an applied edit defines: those of its collaborator's section
\* of the image, and those that every kind of artifact can define.
SymbolsOf(e) == {e.fn, "shared"}

\* The definition of a symbol observed in an image: that of the last edit
\* applied to the image that defines the symbol, NULL when there is none.
Observed(image, sym) ==
    LET touching == {k \in 1..Len(image.edits) : sym \in SymbolsOf(image.edits[k])}
    IN IF touching = {} THEN NULL
       ELSE image.edits[CHOOSE k \in touching : \A j \in touching : j <= k].path

\* One iteration of the loop of lines 199-214: the collaborator applies the
\* edit to the image and returns, or fails and ends the run.
DispatchInput ==
    /\ pc = "ready"
    /\ EditMode
    /\ LoopCond
    /\ LET in == LoopInput(i)
           fn == Collaborator(in.type)
           fl == CollaboratorFlags(in.type)
       IN \E ok \in CollaboratorOutcomes :
            /\ calls' = Append(calls, Call(fn, in.filename, 0, 0, fl, ok))
            /\ IF ok
               THEN /\ ain' = [ain EXCEPT
                                 !.edits = Append(@, Edit(fn, in.filename, fl))]
                    /\ i' = i + 1
                    /\ UNCHANGED <<pc, status, messages>>
               ELSE /\ CollaboratorFails(fn)
                    /\ UNCHANGED <<ain, i>>
    /\ UNCHANGED <<output_file, output>>
    /\ UNCHANGED OptionVars

\* The loop's exit: i < nr_inputs is false.
DispatchDone ==
    /\ pc = "ready"
    /\ EditMode
    /\ ~LoopCond
    /\ pc' = "write"
    /\ UNCHANGED <<output_file, ain, i, calls, output, messages, status>>
    /\ UNCHANGED OptionVars

\* write_ain_file: NOTICE(...); ain_write(output_file, ain);
WriteAin ==
    /\ pc = "write"
    /\ \E ok \in CollaboratorOutcomes :
          /\ calls' = Append(calls, Call("ain_write", output_file, 0, 0, {}, ok))
          /\ IF ok
             THEN /\ output' = Append(output, [path |-> output_file, image |-> ain])
                  /\ messages' = NOTICE(messages, NoticeWrite)
                  /\ pc' = "free"
                  /\ UNCHANGED status
             ELSE /\ pc' = "exited"
                  /\ status' = 1
                  /\ messages' = Append(NOTICE(messages, NoticeWrite), "ain_write")
                  /\ UNCHANGED output
    /\ UNCHANGED <<output_file, ain, i>>
    /\ UNCHANGED OptionVars

\* ain_free(ain); return 0;
FreeAin ==
    /\ pc = "free"
    /\ ain' = [ain EXCEPT !.state = "freed"]
    /\ calls' = Append(calls, Call("ain_free", NULL, 0, 0, {}, TRUE))
    /\ pc' = "exited"
    /\ status' = 0
    /\ UNCHANGED <<output_file, i, output, messages>>
    /\ UNCHANGED OptionVars

Run ==
    \/ ProjectMode
    \/ NewContainer
    \/ OpenContainer
    \/ InitMemberFunctions
    \/ Transcode
    \/ DispatchInput
    \/ DispatchDone
    \/ WriteAin
    \/ FreeAin

----------------------------------------------------------------------------
\* Specification Spec: every command line of at most MaxOpts options.

Getopt ==
    /\ optind < MaxOpts
    /\ \/ \E f \in ProjectPaths : CaseProject(f)
       \/ \E f \in Paths : CaseCode(f)
       \/ \E f \in Paths : CaseJaf(f)
       \/ \E f \in Paths : CaseJson(f)
       \/ \E f \in Paths : CaseText(f)
       \/ \E enc \in Encodings : CaseTranscode(enc)
       \/ \E f \in OutputPaths : CaseOutput(f)
       \/ CaseRaw
       \/ \E str \in VersionArgs : CaseAinVersion(str)
       \/ CaseSilent

GetoptEnd == \E n \in 0..MaxArgc : EndOfOptions(n)

Next == Getopt \/ GetoptEnd \/ Run

Spec == Init /\ [][Next]_vars

----------------------------------------------------------------------------
\* Specification SpecVer: the command lines that hold one --ain-version
\* option, with every argument of at most MaxStrLen characters, and no edit.

GetoptVer ==
    /\ optind = 0
    /\ \E str \in Strings(MaxStrLen) : CaseAinVersion(str)

NextVer ==
    \/ GetoptVer
    \/ GetoptEnd
    \/ NewContainer
    \/ OpenContainer
    \/ InitMemberFunctions
    \/ DispatchDone
    \/ WriteAin
    \/ FreeAin

SpecVer == Init /\ [][NextVer]_vars

----------------------------------------------------------------------------
\* Specification SpecCap: the long command lines.  An optional --ain-version
\* comes first; the edit options follow, their kinds in rotation, until the
\* queue is full and one more is given; the options end only on a queue
\* that is full or one short of it.

BulkPath == IF nr_inputs % 2 = 0 THEN <<"a">> ELSE <<"b">>

GetoptBulk ==
    /\ nr_inputs <= InputsCapacity
    /\ \/ nr_inputs % 4 = 0 /\ CaseCode(BulkPath)
       \/ nr_inputs % 4 = 1 /\ CaseJaf(BulkPath)
       \/ nr_inputs % 4 = 2 /\ CaseJson(BulkPath)
       \/ nr_inputs % 4 = 3 /\ CaseText(BulkPath)
       \/ optind = 0 /\ \E str \in VersionArgs : CaseAinVersion(str)

GetoptEndBulk ==
    /\ nr_inputs >= InputsCapacity - 1
    /\ \E n \in 0..MaxArgc : EndOfOptions(n)

NextCap ==
    \/ GetoptBulk
    \/ GetoptEndBulk
    \/ NewContainer
    \/ OpenContainer
    \/ InitMemberFunctions
    \/ DispatchInput
    \/ DispatchDone
    \/ WriteAin
    \/ FreeAin

SpecCap == Init /\ [][NextCap]_vars

----------------------------------------------------------------------------
\* Specification SpecMode: the long command lines of project and transcode
\* mode.  The mode option comes first or second; edit options follow, their
\* kinds in rotation, up to one more than the queue holds; the options may
\* end after any of them.

ModeSelected == project_file # NULL \/ transcode

GetoptMode ==
    /\ nr_inputs <= InputsCapacity
    /\ \/ ~ModeSelected /\ \E f \in ProjectPaths : CaseProject(f)
       \/ ~ModeSelected /\ \E enc \in Encodings : CaseTranscode(enc)
       \/ /\ ModeSelected \/ nr_inputs = 0
          /\ \/ nr_inputs % 4 = 0 /\ CaseCode(BulkPath)
             \/ nr_inputs % 4 = 1 /\ CaseJaf(BulkPath)
             \/ nr_inputs % 4 = 2 /\ CaseJson(BulkPath)
             \/ nr_inputs % 4 = 3 /\ CaseText(BulkPath)

GetoptEndMode ==
    /\ ModeSelected
    /\ \E n \in 0..MaxArgc : EndOfOptions(n)

NextMode ==
    \/ GetoptMode
    \/ GetoptEndMode
    \/ ProjectMode
    \/ NewContainer
    \/ OpenContainer
    \/ InitMemberFunctions
    \/ Transcode
    \/ WriteAin
    \/ FreeAin

SpecMode == Init /\ [][NextMode]_vars

----------------------------------------------------------------------------
\* What the properties below read off a state.

Last(seq) == seq[Len(seq)]

IsEditOption(o) == o.opt \in {"code", "jaf", "json", "text"}
IsVersionOption(o) == o.opt = "ain-version"
IsProjectOption(o) == o.opt = "project"

\* The edit options of the command line read so far, in the order given.
Submitted == SelectSeq(argv, IsEditOption)
VersionOptions == SelectSeq(argv, IsVersionOption)
ProjectOptions == SelectSeq(argv, IsProjectOption)

\* The collaborator and the input type an edit option stands for.
ExpectedCollaborator(opt) ==
    CASE opt = "code" -> "asm_assemble_jam"
      [] opt = "jaf" -> "jaf_build"
      [] opt = "json" -> "read_declarations"
      [] opt = "text" -> "read_text"

ExpectedType(opt) ==
    CASE opt = "code" -> "IN_CODE"
      [] opt = "jaf" -> "IN_JAF"
      [] opt = "json" -> "IN_DECL"
      [] opt = "text" -> "IN_TEXT"

IsEditCall(c) ==
    c.fn \in {"asm_assemble_jam", "jaf_build", "read_declarations", "read_text"}
IsLoadCall(c) == c.fn \in {"ain_new", "ain_open"}
IsWriteCall(c) == c.fn = "ain_write"
IsTranscodeCall(c) == c.fn = "ain_transcode"
IsProjectCall(c) == c.fn = "pje_build"
IsOk(c) == c.ok

EditCalls == SelectSeq(calls, IsEditCall)
LoadCalls == SelectSeq(calls, IsLoadCall)
WriteCalls == SelectSeq(calls, IsWriteCall)
TranscodeCalls == SelectSeq(calls, IsTranscodeCall)

Count(seq, x) == Cardinality({k \in 1..Len(seq) : seq[k] = x})

\* The run ended normally.
Completed == pc = "exited" /\ status = 0

\* The run ended in a configuration error.
ConfigErrors == {ErrParse, ErrRange, ErrUsage, ErrTooManyInputs}
ConfigError ==
    /\ pc = "exited"
    /\ messages # <<>>
    /\ Last(messages) \in ConfigErrors

\* The run is past the point where it selects edit or transcode mode.
PastModeSelection ==
    \/ pc \in {"write", "free"}
    \/ pc = "exited" /\ WriteCalls # <<>>

\* A well-formed version string, "M" or "M.N" with M and N of one or two
\* decimal digits, and the version it denotes.
IsComponent(s) == Len(s) \in 1..2 /\ \A k \in 1..Len(s) : IsDigit(s[k])

DecimalValue(s) ==
    IF Len(s) = 1 THEN DigitVal(s[1]) ELSE 10 * DigitVal(s[1]) + DigitVal(s[2])

HasMinor(str) == \E d \in 1..Len(str) : str[d] = "."

DotOf(str) == CHOOSE d \in 1..Len(str) : str[d] = "."

WellFormed(str) ==
    \/ IsComponent(str)
    \/ /\ HasMinor(str)
       /\ IsComponent(SubSeq(str, 1, DotOf(str) - 1))
       /\ IsComponent(SubSeq(str, DotOf(str) + 1, Len(str)))

MajorOf(str) ==
    IF HasMinor(str) THEN DecimalValue(SubSeq(str, 1, DotOf(str) - 1))
    ELSE DecimalValue(str)

MinorOf(str) ==
    IF HasMinor(str) THEN DecimalValue(SubSeq(str, DotOf(str) + 1, Len(str)))
    ELSE 0

\* The version the command line asks for: that of its last --ain-version
\* option, 4.0 without one.  Defined when that option is well formed.
RequestDefined == VersionOptions = <<>> \/ WellFormed(Last(VersionOptions).arg)
RequestedMajor ==
    IF VersionOptions = <<>> THEN 4 ELSE MajorOf(Last(VersionOptions).arg)
RequestedMinor ==
    IF VersionOptions = <<>> THEN 0 ELSE MinorOf(Last(VersionOptions).arg)

----------------------------------------------------------------------------
\* Properties.

\* C1: the collaborators are called once per edit option and in the order the
\* edit options were given: the k-th edit call is the one the k-th edit
\* option stands for, with its path; a run in edit mode that reaches the
\* writer has made exactly one successful call per edit option; and all of
\* them worked on the one image the run loaded, which holds their edits in
\* the same order.
EditsInSubmissionOrder ==
    /\ Len(EditCalls) <= Len(Submitted)
    /\ \A k \in 1..Len(EditCalls) :
          /\ EditCalls[k].fn = ExpectedCollaborator(Submitted[k].opt)
          /\ EditCalls[k].path = Submitted[k].arg
    /\ (project_file = NULL /\ ~transcode /\ PastModeSelection) =>
          /\ Len(EditCalls) = Len(Submitted)
          /\ \A k \in 1..Len(EditCalls) : EditCalls[k].ok
    /\ Len(LoadCalls) <= 1
    /\ Len(ain.edits) = Len(SelectSeq(EditCalls, IsOk))
    /\ \A k \in 1..Len(ain.edits) :
          /\ ain.edits[k].fn = EditCalls[k].fn
          /\ ain.edits[k].path = EditCalls[k].path

\* A run in edit mode applied three edits, the first and the last of them the
\* same request, the second to another collaborator.
EditsInSubmissionOrderWitness ==
    /\ pc = "free"
    /\ ~transcode
    /\ Len(EditCalls) = 3
    /\ EditCalls[1] = EditCalls[3]
    /\ EditCalls[1].fn # EditCalls[2].fn

\* C2: no partial commit.  The writer is called only after the transcoder
\* ran or after every edit option's call succeeded; a failed edit call is the
\* last call of the run, which has ended in failure with nothing written.
NoPartialCommit ==
    /\ WriteCalls # <<>> =>
          IF transcode
          THEN Len(TranscodeCalls) = 1 /\ EditCalls = <<>>
          ELSE /\ Len(EditCalls) = Len(Submitted)
               /\ \A k \in 1..Len(EditCalls) : EditCalls[k].ok
    /\ \A k \in 1..Len(calls) :
          (IsEditCall(calls[k]) /\ ~calls[k].ok) =>
             /\ k = Len(calls)
             /\ pc = "exited"
             /\ status # 0
             /\ output = <<>>

\* The second of three edits failed.
NoPartialCommitWitness ==
    /\ Len(Submitted) = 3
    /\ Len(EditCalls) = 2
    /\ EditCalls[1].ok
    /\ ~EditCalls[2].ok
    /\ pc = "exited"

\* C3: in transcode mode the queue is ignored.  With the transcode flag set
\* and edit options given, no edit is ever dispatched; and once such a run
\* (without a project file) is past the mode selection, the transcoder has
\* run exactly once, the warning has been given once, and every image handed
\* to the writer is the loaded one, fixed up and transcoded, with no edit.
TranscodeIgnoresQueue ==
    (transcode /\ Submitted # <<>>) =>
       /\ EditCalls = <<>>
       /\ ain.edits = <<>>
       /\ (project_file = NULL /\ PastModeSelection) =>
             /\ Len(TranscodeCalls) = 1
             /\ Count(messages, WarnTranscode) = 1
             /\ Len(LoadCalls) = 1
             /\ \A k \in 1..Len(output) :
                   /\ output[k].image.edits = <<>>
                   /\ output[k].image.member_functions
                   /\ output[k].image.transcoded
                   /\ output[k].image.major = LoadCalls[1].major
                   /\ output[k].image.minor = LoadCalls[1].minor

\* A transcoding run with two edit options wrote its image.
TranscodeIgnoresQueueWitness ==
    /\ transcode
    /\ Len(Submitted) = 2
    /\ Len(output) = 1
    /\ Completed

\* C4: project mode bypasses the rest.  With a project file no image is ever
\* created, opened, fixed up, edited, transcoded or written; the run ends in
\* a configuration error or in success, and then the project builder was
\* called exactly once, with the project file and the requested version, and
\* the warning was given exactly when edit options were.
ProjectModeBypasses ==
    project_file # NULL =>
       /\ ain = NoImage
       /\ output = <<>>
       /\ \A k \in 1..Len(calls) : IsProjectCall(calls[k])
       /\ pc = "exited" =>
             \/ ConfigError /\ calls = <<>>
             \/ /\ status = 0
                /\ Len(calls) = 1
                /\ calls[1].path = Last(ProjectOptions).arg
                /\ RequestDefined =>
                      /\ calls[1].major = RequestedMajor
                      /\ calls[1].minor = RequestedMinor
                /\ Count(messages, WarnProject) = (IF Submitted # <<>> THEN 1 ELSE 0)
                /\ Len(messages) = Count(messages, WarnProject)

\* A run with a project file, the transcode flag and an edit option ended.
ProjectModeBypassesWitness ==
    /\ project_file # NULL
    /\ transcode
    /\ Len(Submitted) = 1
    /\ Completed


\* The request an edit option queues.
RequestOf(o) == [type |-> ExpectedType(o.opt), filename |-> o.arg]

Emitted(msg) == \E k \in 1..Len(messages) : messages[k] = msg

\* C5: the queue holds at most 256 requests.  Its length stays within
\* 0..256 and no slot past its length is written; up to and including the
\* 256th edit option every option is queued, in order, without an error; the
\* 257th ends the run with the capacity error and leaves the 256 queued
\* requests as they were.
QueueWithinCapacity ==
    /\ 0 <= nr_inputs
    /\ nr_inputs <= 256
    /\ DOMAIN inputs = 1..nr_inputs
    /\ Len(Submitted) <= 256 =>
          /\ nr_inputs = Len(Submitted)
          /\ ~Emitted(ErrTooManyInputs)
    /\ Len(Submitted) > 256 =>
          /\ nr_inputs = 256
          /\ pc = "exited"
          /\ status # 0
          /\ Last(messages) = ErrTooManyInputs
    /\ LET given == Submitted
       IN \A k \in 1..nr_inputs : inputs[k] = RequestOf(given[k])

\* The 257th edit option was given.
QueueWithinCapacityWitness ==
    /\ Len(Submitted) = 257
    /\ nr_inputs = 256
    /\ pc = "exited"

\* C6: a configuration error comes before any image.  Once one of the four
\* configuration errors has been reported the run has ended in failure, and
\* no container was created, opened, fixed up, edited, transcoded, built
\* from a project or written.
ConfigErrorBeforeImage ==
    (\E k \in 1..Len(messages) : messages[k] \in ConfigErrors) =>
       /\ pc = "exited"
       /\ status # 0
       /\ calls = <<>>
       /\ ain = NoImage
       /\ output = <<>>

\* Too many positional arguments after a full queue.
ConfigErrorBeforeImageWitness ==
    /\ Emitted(ErrUsage)
    /\ nr_inputs = 256

\* C7: parse_version accepts every well-formed version string: it reports
\* no parse error and stores (M, N) for "M.N" and (M, 0) for "M".
WellFormedVersionParsed ==
    (VersionOptions # <<>> /\ WellFormed(Last(VersionOptions).arg)) =>
       /\ ~Emitted(ErrParse)
       /\ major_version = MajorOf(Last(VersionOptions).arg)
       /\ minor_version = MinorOf(Last(VersionOptions).arg)

\* A version string "MM.NN" was parsed and the run goes on.
WellFormedVersionParsedWitness ==
    /\ VersionOptions # <<>>
    /\ WellFormed(Last(VersionOptions).arg)
    /\ Len(Last(VersionOptions).arg) = 5
    /\ minor_version > 9
    /\ pc = "getopt"

\* C8: parse_version rejects every malformed version string: the run ends
\* with the parse error.
MalformedVersionRejected ==
    (VersionOptions # <<>> /\ ~WellFormed(Last(VersionOptions).arg)) =>
       /\ pc = "exited"
       /\ status # 0
       /\ Last(messages) = ErrParse

\* The malformed string "4.." was taken for version 4.0 and the run wrote a
\* container.
MalformedVersionAccepted ==
    /\ VersionOptions # <<>>
    /\ Last(VersionOptions).arg = <<"4", ".", ".">>
    /\ major_version = 4
    /\ minor_version = 0
    /\ Len(output) = 1
    /\ Completed

\* What parse_version does reject: a string whose part before the first dot,
\* or whose part after it, is longer than 2 characters.
TooLong(str) ==
    IF HasMinor(str)
    THEN DotOf(str) - 1 > 2 \/ Len(str) - DotOf(str) > 2
    ELSE Len(str) > 2

\* The parse error is reported for exactly the strings that are too long.
ParseErrorIffTooLong ==
    VersionOptions # <<>> =>
       (Emitted(ErrParse) <=> TooLong(Last(VersionOptions).arg))

\* C9: the version range.  A well-formed request whose major is outside
\* 4..14 ends the run with the unsupported-version error, not the parse
\* error, before any container exists; one inside 4..14 is accepted, and the
\* run without a container path then calls ain_new with exactly the
\* requested version and holds a fresh, empty image of that version.
VersionRange ==
    /\ (VersionOptions # <<>> /\ WellFormed(Last(VersionOptions).arg)) =>
          IF MajorOf(Last(VersionOptions).arg) \in 4..14
          THEN ~Emitted(ErrRange) /\ ~Emitted(ErrParse)
          ELSE /\ pc = "exited"
               /\ status # 0
               /\ Last(messages) = ErrRange
               /\ ~Emitted(ErrParse)
               /\ calls = <<>>
               /\ ain = NoImage
    /\ (RequestDefined /\ argc = 0 /\ project_file = NULL
          /\ pc \notin {"getopt", "parsed"} /\ ~ConfigError) =>
          /\ RequestedMajor \in 4..14
          /\ LoadCalls = <<Call("ain_new", NULL, RequestedMajor, RequestedMinor,
                                {}, TRUE)>>
          /\ ain.major = RequestedMajor
          /\ ain.minor = RequestedMinor
          /\ ain.origin = "new"
          /\ pc = "opened" =>
                ain = [state |-> "live", major |-> RequestedMajor,
                       minor |-> RequestedMinor, origin |-> "new",
                       member_functions |-> FALSE, transcoded |-> FALSE,
                       edits |-> <<>>]

\* A fresh image of version 14.10 was created.
VersionRangeWitness ==
    /\ pc = "opened"
    /\ argc = 0
    /\ VersionOptions # <<>>
    /\ ain.origin = "new"
    /\ ain.major = 14
    /\ ain.minor = 10

\* C10: an opened container keeps its own version.  In a run with a
\* container path ain_new is never called, and the image that is edited and
\* every image handed to the writer carry the version the container stores,
\* whatever version was requested.
OpenedVersionGoverns ==
    (argc = 1 /\ project_file = NULL) =>
       /\ \A k \in 1..Len(calls) : calls[k].fn # "ain_new"
       /\ Len(LoadCalls) <= 1
       /\ (LoadCalls # <<>> /\ LoadCalls[1].ok) =>
             /\ <<LoadCalls[1].major, LoadCalls[1].minor>> \in FileVersions
             /\ ain.origin = "file"
             /\ ain.major = LoadCalls[1].major
             /\ ain.minor = LoadCalls[1].minor
             /\ \A k \in 1..Len(output) :
                   /\ output[k].image.major = LoadCalls[1].major
                   /\ output[k].image.minor = LoadCalls[1].minor

\* Version 14.1 was requested, a container of version 4.0 was opened, edited
\* and written.
OpenedVersionGovernsWitness ==
    /\ argc = 1
    /\ VersionOptions # <<>>
    /\ major_version = 14
    /\ minor_version = 1
    /\ Len(output) = 1
    /\ output[1].image.major = 4
    /\ output[1].image.minor = 0
    /\ Len(output[1].image.edits) = 1
    /\ Completed

IsFixupCall(c) == c.fn = "ain_init_member_functions"
IsFreeCall(c) == c.fn = "ain_free"
FixupCalls == SelectSeq(calls, IsFixupCall)
FreeCalls == SelectSeq(calls, IsFreeCall)

\* The run holds an image: ain_new or ain_open returned one.
ImageObtained == LoadCalls # <<>> /\ LoadCalls[1].ok

\* C11: the member-function fix-up.  It is called at most once, right after
\* the call that obtained the image; a run that holds an image and is past
\* that point has called it exactly once; every edit, transcode and write
\* call comes after it, and every image that holds an edit, is transcoded or
\* was handed to the writer is fixed up.
FixupBeforeUse ==
    /\ Len(FixupCalls) <= 1
    /\ \A k \in 1..Len(calls) :
          IsFixupCall(calls[k]) =>
             k = 2 /\ IsLoadCall(calls[1]) /\ calls[1].ok
    /\ (ImageObtained /\ pc # "opened") => Len(FixupCalls) = 1
    /\ \A k \in 1..Len(calls) :
          (IsEditCall(calls[k]) \/ IsTranscodeCall(calls[k]) \/ IsWriteCall(calls[k])) =>
             \E j \in 1..(k - 1) : IsFixupCall(calls[j])
    /\ (ain.edits # <<>> \/ ain.transcoded) => ain.member_functions
    /\ \A k \in 1..Len(output) : output[k].image.member_functions

\* A created image was fixed up, edited and written.
FixupBeforeUseWitness ==
    /\ Completed
    /\ ImageObtained
    /\ LoadCalls[1].fn = "ain_new"
    /\ Len(ain.edits) = 2
    /\ Len(output) = 1

\* C12: the image is released on every path that ends the run.  Once a run
\* that obtained an image has ended, ain_free has been called exactly once,
\* as the last call, and the image is released.
ImageReleasedOnExit ==
    (pc = "exited" /\ ImageObtained) =>
       /\ Len(FreeCalls) = 1
       /\ IsFreeCall(Last(calls))
       /\ ain.state = "freed"

\* What the code does: the image is released only on the path where the
\* writer returned, and nothing uses it afterwards.
ImageReleasedAfterWriteOnly ==
    /\ Len(FreeCalls) <= 1
    /\ \A k \in 1..Len(calls) : IsFreeCall(calls[k]) => k = Len(calls)
    /\ (pc = "exited" /\ ImageObtained) =>
          (Len(FreeCalls) = 1 <=> (status = 0 /\ WriteCalls # <<>> /\ Last(WriteCalls).ok))
    /\ ain.state = "freed" <=> Len(FreeCalls) = 1

\* An edit failed and the run ended holding its image.
ImageNotReleased ==
    /\ pc = "exited"
    /\ ImageObtained
    /\ EditCalls # <<>>
    /\ ~Last(EditCalls).ok
    /\ ain.state = "live"
    /\ FreeCalls = <<>>

\* A call that did not return: the reader, a collaborator or the writer
\* failed.
FailedCall == \E k \in 1..Len(calls) : ~calls[k].ok

FatalMessages == ConfigErrors \cup {ErrOpen}
FatalReported == \E k \in 1..Len(messages) : messages[k] \in FatalMessages

\* C13: the exit status.  A run ends with status 0 exactly when no fatal
\* error was reported and no call failed, its last call being ain_free or
\* pje_build; a bad version, too many inputs, too many arguments, a failed
\* open, a failed edit and a failed write all end it with a non-zero status.
ExitStatusReflectsErrors ==
    pc = "exited" =>
       /\ status = 0 <=>
             /\ ~FatalReported
             /\ ~FailedCall
             /\ calls # <<>>
             /\ IsFreeCall(Last(calls)) \/ IsProjectCall(Last(calls))
       /\ (FatalReported \/ FailedCall) => status # 0

\* The writer failed after a full queue of edits was applied.
ExitStatusReflectsErrorsWitness ==
    /\ pc = "exited"
    /\ WriteCalls # <<>>
    /\ ~Last(WriteCalls).ok
    /\ Len(ain.edits) = 256
    /\ status = 1

\* The options were read without a configuration error, the transcode flag
\* is set, and there is neither a project file nor a container path.
TranscodeWithoutContainer ==
    /\ pc \notin {"getopt", "parsed"}
    /\ ~ConfigError
    /\ transcode
    /\ project_file = NULL
    /\ argc = 0

\* C14 as stated: a run with the transcode flag set and no container path
\* fails; the transcoder is not run on a freshly created image and no output
\* container is written.
TranscodeWithoutContainerFails ==
    TranscodeWithoutContainer =>
       /\ TranscodeCalls = <<>>
       /\ output = <<>>
       /\ pc = "exited" => status # 0

\* C14, amended: a run with the transcode flag set and no container path
\* does not fail for want of a container.  It creates an image of the
\* requested version, applies no edit, runs the transcoder once on the fresh
\* image and hands it to the writer; it fails only if the writer fails, and
\* otherwise writes the fresh, transcoded image once.
TranscodeOfFreshImage ==
    TranscodeWithoutContainer =>
       /\ LoadCalls = <<Call("ain_new", NULL, major_version, minor_version,
                             {}, TRUE)>>
       /\ EditCalls = <<>>
       /\ PastModeSelection =>
             /\ Len(TranscodeCalls) = 1
             /\ ain.origin = "new"
             /\ ain.transcoded
             /\ ain.edits = <<>>
       /\ pc = "exited" =>
             /\ Len(WriteCalls) = 1
             /\ status = 0 <=> Last(WriteCalls).ok
             /\ status = 0 =>
                   /\ Len(output) = 1
                   /\ output[1].image.origin = "new"
                   /\ output[1].image.transcoded
                   /\ output[1].image.edits = <<>>
                   /\ output[1].image.major = major_version
                   /\ output[1].image.minor = minor_version

\* A transcode run without a container path that ended normally, with the
\* fresh image written.
TranscodeOfFreshImageWitness ==
    /\ TranscodeWithoutContainer
    /\ Completed
    /\ Len(TranscodeCalls) = 1
    /\ Len(output) = 1
    /\ output[1].image.origin = "new"
    /\ output[1].image.transcoded

\* Edit inputs were given together with project mode or transcode mode.
ModeConflict == (project_file # NULL \/ transcode) /\ Submitted # <<>>

\* The inputs are ignored with one warning, and the run goes on to the
\* project build or to transcode-and-write.
ModeConflictHandled ==
    /\ EditCalls = <<>>
    /\ (project_file # NULL /\ pc = "exited" /\ ~ConfigError) =>
          /\ status = 0
          /\ Count(messages, WarnProject) = 1
          /\ Len(calls) = 1
          /\ IsProjectCall(calls[1])
    /\ (project_file = NULL /\ PastModeSelection) =>
          /\ Count(messages, WarnTranscode) = 1
          /\ Len(TranscodeCalls) = 1
    /\ (project_file = NULL /\ pc = "exited" /\ ~ConfigError
          /\ ~Emitted(ErrOpen)) =>
          /\ Len(WriteCalls) = 1
          /\ status = 0 <=> Last(WriteCalls).ok

\* C15 as stated: for any number of edit inputs supplied together with
\* project mode or transcode mode, the run does not abort because of those
\* inputs; it warns, ignores them and proceeds.
ModeConflictNeverFatal ==
    ModeConflict => ~Emitted(ErrTooManyInputs) /\ ModeConflictHandled

\* C15, amended: for any number of edit inputs up to the capacity of the
\* queue supplied together with project mode or transcode mode, the run does
\* not abort because of those inputs; it warns once, ignores them and
\* proceeds to the project build or to transcode-and-write.
ModeConflictWithinCapacity ==
    (ModeConflict /\ Len(Submitted) <= InputsCapacity) =>
       ~Emitted(ErrTooManyInputs) /\ ModeConflictHandled

\* A transcode run given a full queue of inputs that ended normally.
ModeConflictWithinCapacityWitness ==
    /\ Completed
    /\ transcode
    /\ project_file = NULL
    /\ Len(Submitted) = InputsCapacity
    /\ Count(messages, WarnTranscode) = 1
    /\ Len(output) = 1
    /\ output[1].image.edits = <<>>

\* A run that opened an existing container, with an empty queue and no
\* transcode flag, and the image the reader returned to it.
RoundTripRun ==
    /\ pc \notin {"getopt", "parsed"}
    /\ project_file = NULL
    /\ argc = 1
    /\ nr_inputs = 0
    /\ ~transcode
    /\ ImageObtained

ReaderImage == ain_open(<<LoadCalls[1].major, LoadCalls[1].minor>>)

\* C16 as stated: a run that opens an existing container with an empty
\* queue and no transcode flag passes to the writer an image equal to the
\* one the reader returned.
RoundTripIdentity ==
    RoundTripRun =>
       /\ pc = "write" => ain = ReaderImage
       /\ \A k \in 1..Len(output) : output[k].image = ReaderImage

\* C16, amended: such a run passes to the writer the image the reader
\* returned with the member-function fix-up applied to it and no other
\* change: no edit, no transcoding, the version the container stores.
RoundTripUpToFixup ==
    RoundTripRun =>
       LET fixed == [ReaderImage EXCEPT !.member_functions = TRUE]
       IN /\ LoadCalls[1].fn = "ain_open"
          /\ EditCalls = <<>>
          /\ TranscodeCalls = <<>>
          /\ pc = "write" => ain = fixed
          /\ Len(output) <= 1
          /\ \A k \in 1..Len(output) : output[k].image = fixed
          /\ Completed => Len(output) = 1

\* A container of version 14.1 opened and written back with no edit.
RoundTripUpToFixupWitness ==
    /\ RoundTripRun
    /\ Completed
    /\ Len(output) = 1
    /\ output[1].image.origin = "file"
    /\ output[1].image.major = 14
    /\ output[1].image.minor = 1
    /\ output[1].image.edits = <<>>

AllSymbols == {"asm_assemble_jam", "jaf_build", "read_text",
               "read_declarations", "shared"}

\* The image a run starts from, as its load call returned it.
StartImage ==
    IF LoadCalls[1].fn = "ain_new"
    THEN ain_new(LoadCalls[1].major, LoadCalls[1].minor)
    ELSE ain_open(<<LoadCalls[1].major, LoadCalls[1].minor>>)

\* The edit a submitted request stands for.
EditOf(o) ==
    Edit(ExpectedCollaborator(o.opt), o.arg,
         IF o.opt = "code" THEN flags ELSE {})

\* The requests, by position in submission order, that touch a symbol.
Touching(given, sym) ==
    {k \in 1..Len(given) : sym \in SymbolsOf(EditOf(given[k]))}

\* C17: last writer wins.  The image written by an edit run is determined by
\* the starting image and the queue: it is the starting image, fixed up, with
\* the queue's edits in submission order.  For every symbol touched by two
\* or more requests the definition observed in the written image is that of
\* the request latest in submission order.  Holding for every command line,
\* it holds for a command line and for the one with two requests swapped:
\* the swap makes the other request's definition the observed one.
LastWriterWins ==
    (project_file = NULL /\ ~transcode /\ output # <<>>) =>
       LET given == Submitted
           image == output[1].image
       IN /\ Len(output) = 1
          /\ image = [StartImage EXCEPT
                        !.member_functions = TRUE,
                        !.edits = [k \in 1..Len(given) |-> EditOf(given[k])]]
          /\ \A sym \in AllSymbols :
                LET touching == Touching(given, sym)
                IN Cardinality(touching) >= 2 =>
                      \E k \in touching :
                         /\ \A j \in touching : j <= k
                         /\ Observed(image, sym) = given[k].arg

\* Two text tables, a then b, a declaration file between them: the written
\* image shows b's text definitions.
LastWriterWinsWitness ==
    /\ Completed
    /\ Len(output) = 1
    /\ Len(Submitted) = 3
    /\ Submitted[1] = [opt |-> "text", arg |-> <<"a">>]
    /\ Submitted[2].opt = "json"
    /\ Submitted[3] = [opt |-> "text", arg |-> <<"b">>]
    /\ Observed(output[1].image, "read_text") = <<"b">>
    /\ Observed(output[1].image, "read_declarations") = Submitted[2].arg

IsOutputOption(o) == o.opt = "output"
OutputOptions == SelectSeq(argv, IsOutputOption)

\* C18: defaults.  A run with no container path, no version option and no
\* output option creates a fresh image at version (4, 0), applies only the
\* queued edits to it, and writes it exactly once to "out.ain"; when an
\* output option is given, the write goes to the last output path supplied
\* and to no other path.
Defaults ==
    LET given == Submitted
        paths == OutputOptions
    IN /\ (Completed /\ project_file = NULL /\ ~transcode /\ argc = 0
             /\ VersionOptions = <<>> /\ paths = <<>>) =>
             /\ LoadCalls = <<Call("ain_new", NULL, 4, 0, {}, TRUE)>>
             /\ Len(EditCalls) = Len(given)
             /\ Len(WriteCalls) = 1
             /\ WriteCalls[1].path = <<"o", "u", "t", ".", "a", "i", "n">>
             /\ output = <<[path |-> <<"o", "u", "t", ".", "a", "i", "n">>,
                            image |-> [ain_new(4, 0) EXCEPT
                               !.member_functions = TRUE,
                               !.edits = [k \in 1..Len(given) |->
                                             EditOf(given[k])]]]>>
       /\ paths # <<>> =>
             /\ Len(WriteCalls) <= 1
             /\ \A k \in 1..Len(WriteCalls) :
                   WriteCalls[k].path = Last(paths).arg
             /\ \A k \in 1..Len(output) : output[k].path = Last(paths).arg
             /\ (Completed /\ project_file = NULL) => Len(output) = 1

\* No container path, no version and no output option, two edits: the fresh
\* 4.0 image with the two edits is written to "out.ain".
DefaultsWitness ==
    /\ Completed
    /\ project_file = NULL
    /\ ~transcode
    /\ argc = 0
    /\ VersionOptions = <<>>
    /\ OutputOptions = <<>>
    /\ Len(Submitted) = 2
    /\ Len(output) = 1
    /\ output[1].path = OutAin
    /\ output[1].image.major = 4
    /\ output[1].image.minor = 0
    /\ Len(output[1].image.edits) = 2

\* Two output options and one edit: the image is written to the second
\* path only.
LastOutputPathWitness ==
    /\ Completed
    /\ Len(OutputOptions) = 2
    /\ OutputOptions[1].arg # OutputOptions[2].arg
    /\ Len(Submitted) = 1
    /\ Len(output) = 1
    /\ output[1].path = OutputOptions[2].arg
\* The collaborator of each kind of request: the assembler for compiled
\* bytecode text, the compiler for high-level source, the declaration merger
\* for structured declarations, the text-table merger for text tables.
RouteOf(type) ==
    CASE type = "IN_CODE" -> "asm_assemble_jam"
      [] type = "IN_JAF" -> "jaf_build"
      [] type = "IN_DECL" -> "read_declarations"
      [] type = "IN_TEXT" -> "read_text"

\* C19: routing by kind.  The k-th collaborator call of a run is made for
\* the k-th queue entry and for no other: it goes to the collaborator of the
\* kind recorded at push time, with the single path recorded at push time.
\* Every entry that was dispatched got exactly one call, and a queue entry
\* is still, at every later point of the run, what its option pushed.
RoutingByKind ==
    LET given == Submitted
    IN /\ Len(EditCalls) <= nr_inputs
       /\ Len(inputs) = nr_inputs
       /\ \A k \in 1..nr_inputs : inputs[k] = RequestOf(given[k])
       /\ \A k \in 1..Len(EditCalls) :
             /\ EditCalls[k].fn = RouteOf(inputs[k].type)
             /\ EditCalls[k].path = inputs[k].filename
       /\ (pc = "ready" /\ EditMode) =>
             Len(EditCalls) = IF EditCalls # <<>> /\ ~Last(EditCalls).ok
                              THEN i + 1 ELSE i
       /\ (project_file = NULL /\ ~transcode /\ PastModeSelection) =>
             Len(EditCalls) = nr_inputs

\* A completed run that dispatched a text table, a declaration file and a
\* source file, each to its own collaborator.
RoutingByKindWitness ==
    /\ Completed
    /\ nr_inputs = 3
    /\ inputs[1].type = "IN_TEXT"
    /\ inputs[2].type = "IN_DECL"
    /\ inputs[3].type = "IN_JAF"
    /\ Len(EditCalls) = 3
    /\ EditCalls[1].fn = "read_text"
    /\ EditCalls[2].fn = "read_declarations"
    /\ EditCalls[3].fn = "jaf_build"
    /\ EditCalls[3].path = inputs[3].filename

IsRawOption(o) == o.opt = "raw"
RawOptions == SelectSeq(argv, IsRawOption)
IsAssemblerCall(c) == c.fn = "asm_assemble_jam"

\* C20: raw mode belongs to the whole run.  Every assembler call of a run is
\* given the raw flag exactly when a raw option is on the command line,
\* wherever it stands; no call to the compiler or to a merger is given it.
RawModeWholeRun ==
    \A k \in 1..Len(EditCalls) :
       IF IsAssemblerCall(EditCalls[k])
       THEN "ASM_RAW" \in EditCalls[k].flags <=> RawOptions # <<>>
       ELSE EditCalls[k].flags = {}

\* A code option followed by the raw option and a text table: the code was
\* assembled raw, the text table merged without the flag.
RawModeWholeRunWitness ==
    /\ Completed
    /\ Len(argv) = 3
    /\ argv[1].opt = "code"
    /\ argv[2].opt = "raw"
    /\ argv[3].opt = "text"
    /\ Len(EditCalls) = 2
    /\ EditCalls[1].fn = "asm_assemble_jam"
    /\ EditCalls[1].flags = {"ASM_RAW"}
    /\ EditCalls[2].flags = {}

====
